---- MODULE Spec2Model ----
(***************************************************************************)
(* Scorton CLI (src/scorton.py): one invocation of the command-line client *)
(* or of one of its command functions, against a scripted HTTP server.     *)
(*                                                                         *)
(* Text is modelled as sequences of one-character strings, so that         *)
(* urlparse, rstrip, sorted, json parsing and json.dumps are computed and  *)
(* not assumed.  A message is a format template with its interpolated      *)
(* values: [fmt |-> template, args |-> <<text, ...>>].                     *)
(***************************************************************************)
EXTENDS Integers, Sequences, FiniteSets, TLC

(* ------------------------------ text --------------------------------- *)

LowerLetters == <<"a","b","c","d","e","f","g","h","i","j","k","l","m",
                  "n","o","p","q","r","s","t","u","v","w","x","y","z">>
UpperLetters == <<"A","B","C","D","E","F","G","H","I","J","K","L","M",
                  "N","O","P","Q","R","S","T","U","V","W","X","Y","Z">>
DigitChars == <<"0","1","2","3","4","5","6","7","8","9">>

Range(seq) == {seq[i] : i \in 1..Len(seq)}

IndexIn(seq, c) == CHOOSE i \in 1..Len(seq) : seq[i] = c

\* Code-point order of the characters that occur in identifiers.
CodeOrder == DigitChars \o UpperLetters \o <<"_">> \o LowerLetters

CharCode(c) == IndexIn(CodeOrder, c)

\* Python's str < str: lexicographic by code point.
RECURSIVE StrLess(_, _)
StrLess(a, b) ==
    IF b = << >> THEN FALSE
    ELSE IF a = << >> THEN TRUE
    ELSE IF a[1] = b[1] THEN StrLess(Tail(a), Tail(b))
    ELSE CharCode(a[1]) < CharCode(b[1])

\* str.lower() on one character.
LowerChar(c) == IF c \in Range(UpperLetters) THEN LowerLetters[IndexIn(UpperLetters, c)] ELSE c

Lower(s) == [i \in 1..Len(s) |-> LowerChar(s[i])]

StartsWith(s, p) == Len(s) >= Len(p) /\ SubSeq(s, 1, Len(p)) = p

\* s[:n]
Take(s, n) == SubSeq(s, 1, IF Len(s) < n THEN Len(s) ELSE n)

\* s[n:]  (0-based n, as in Python)
Drop(s, n) == SubSeq(s, n + 1, Len(s))

\* str.find(c): 0-based index of the first occurrence, -1 when absent.
Find(s, c) ==
    IF \E i \in 1..Len(s) : s[i] = c
    THEN (CHOOSE i \in 1..Len(s) : s[i] = c /\ \A j \in 1..(i - 1) : s[j] # c) - 1
    ELSE -1

\* s[i-1:j] clipped to the text, as Python slices are (1-based i, j here)
Slice(s, i, j) == SubSeq(s, i, IF j > Len(s) THEN Len(s) ELSE j)

IsSubstring(p, s) == \E i \in 0..(Len(s) - Len(p)) : SubSeq(s, i + 1, i + Len(p)) = p

\* str.rstrip(c)
RECURSIVE RStrip(_, _)
RStrip(s, c) ==
    IF s # << >> /\ s[Len(s)] = c THEN RStrip(SubSeq(s, 1, Len(s) - 1), c) ELSE s

\* sep.join(list)
RECURSIVE Join(_, _)
Join(list, sep) ==
    IF list = << >> THEN << >>
    ELSE IF Len(list) = 1 THEN list[1]
    ELSE list[1] \o sep \o Join(Tail(list), sep)

\* str(n) for an int n
RECURSIVE NatDigits(_)
NatDigits(n) ==
    IF n < 10 THEN <<DigitChars[n + 1]>>
    ELSE NatDigits(n \div 10) \o <<DigitChars[(n % 10) + 1]>>

Digits(n) == IF n < 0 THEN <<"-">> \o NatDigits(-n) ELSE NatDigits(n)

\* Optional values: None is the empty tuple, a value v is <<v>>.
None == << >>
Some(v) == <<v>>

\* Python truthiness of an optional string: None and "" are falsy.
Truthy(o) == o # None /\ o[1] # << >>

\* a or b
Or(a, b) == IF Truthy(a) THEN a ELSE b

Msg(f, a) == [fmt |-> f, args |-> a]

(* ---------------------------- constants ------------------------------ *)

T_cookie_scan == <<"c", "o", "o", "k", "i", "e", "_", "s", "c", "a", "n">>
T_dir_scan == <<"d", "i", "r", "_", "s", "c", "a", "n">>
T_dns_enum == <<"d", "n", "s", "_", "e", "n", "u", "m">>
T_headers_check == <<"h", "e", "a", "d", "e", "r", "s", "_", "c", "h", "e", "c", "k">>
T_methods_scan == <<"m", "e", "t", "h", "o", "d", "s", "_", "s", "c", "a", "n">>
T_port_scan == <<"p", "o", "r", "t", "_", "s", "c", "a", "n">>
T_reverse_dns == <<"r", "e", "v", "e", "r", "s", "e", "_", "d", "n", "s">>
T_ssl_scan == <<"s", "s", "l", "_", "s", "c", "a", "n">>
T_url_analyze == <<"u", "r", "l", "_", "a", "n", "a", "l", "y", "z", "e">>
T_whois_scan == <<"w", "h", "o", "i", "s", "_", "s", "c", "a", "n">>
T_xss_scan == <<"x", "s", "s", "_", "s", "c", "a", "n">>

\* The dict literal, as <<key, value>> pairs in insertion order.
ENDPOINTS ==
    << <<T_cookie_scan, T_cookie_scan>>, <<T_dir_scan, T_dir_scan>>,
       <<T_dns_enum, T_dns_enum>>, <<T_headers_check, T_headers_check>>,
       <<T_methods_scan, T_methods_scan>>, <<T_port_scan, T_port_scan>>,
       <<T_reverse_dns, T_reverse_dns>>, <<T_ssl_scan, T_ssl_scan>>,
       <<T_url_analyze, T_url_analyze>>, <<T_whois_scan, T_whois_scan>>,
       <<T_xss_scan, T_xss_scan>> >>

\* ENDPOINTS.keys()
EndpointKeys == [i \in 1..Len(ENDPOINTS) |-> ENDPOINTS[i][1]]

\* tool in ENDPOINTS: exact, case-sensitive key equality.
InEndpoints(tool) == \E i \in 1..Len(ENDPOINTS) : ENDPOINTS[i][1] = tool

\* ENDPOINTS[tool]
EndpointOf(tool) == ENDPOINTS[CHOOSE i \in 1..Len(ENDPOINTS) : ENDPOINTS[i][1] = tool][2]

\* sorted(list of str): insertion sort by StrLess.
RECURSIVE Insert(_, _)
Insert(sortedSeq, x) ==
    IF sortedSeq = << >> THEN <<x>>
    ELSE IF StrLess(x, sortedSeq[1]) THEN <<x>> \o sortedSeq
    ELSE <<sortedSeq[1]>> \o Insert(Tail(sortedSeq), x)

RECURSIVE Sorted(_)
Sorted(list) ==
    IF list = << >> THEN << >> ELSE Insert(Sorted(SubSeq(list, 1, Len(list) - 1)), list[Len(list)])

DefaultApiUrl == <<"h", "t", "t", "p", ":", "/", "/", "l", "o", "c", "a", "l", "h", "o", "s", "t", ":", "8", "0", "0", "0">>
DefaultTimeout == 30
DefaultMaxRetries == 3

\* Retry(status_forcelist=[429, 500, 502, 503, 504])
StatusForcelist == {429, 500, 502, 503, 504}

\* Retry's default allowed_methods: the idempotent methods; POST is not one.
AllowedMethods == {"HEAD", "GET", "PUT", "DELETE", "OPTIONS", "TRACE"}

\* requests.Session.max_redirects (post() follows redirects by default).
MaxRedirects == 30

\* response.text[:400]
PreviewLen == 400

\* json.dumps(result, indent=2)
IndentWidth == 2

E_score == <<"s", "c", "o", "r", "e">>
M_deep == <<"d", "e", "e", "p">>
K_target == <<"t", "a", "r", "g", "e", "t">>
K_mode == <<"m", "o", "d", "e">>
K_status == <<"s", "t", "a", "t", "u", "s">>
K_data == <<"d", "a", "t", "a">>
K_raw == <<"r", "a", "w">>
V_ok == <<"o", "k">>
V_unknown == <<"u", "n", "k", "n", "o", "w", "n">>
Sep == <<",", " ">>
Masked == <<"*", "*", "*">>
NotSet == <<"N", "o", "t", " ", "s", "e", "t">>

(* ------------------------------ URLs --------------------------------- *)

SchemeChars == Range(LowerLetters) \cup Range(UpperLetters) \cup Range(DigitChars) \cup {"+", "-", "."}

IsAlpha(c) == c \in Range(LowerLetters) \cup Range(UpperLetters)

\* urlparse(url).scheme: the text before the first ":" when it starts with a
\* letter and holds scheme characters only, lower-cased; "" otherwise.
UrlScheme(url) ==
    LET i == Find(url, ":")
    IN  IF i > 0 /\ IsAlpha(url[1]) /\ \A j \in 1..i : url[j] \in SchemeChars
        THEN Lower(Take(url, i))
        ELSE << >>

\* what urlparse leaves after the scheme
UrlRest(url) == IF UrlScheme(url) # << >> THEN Drop(url, Find(url, ":") + 1) ELSE url

\* urlparse(url).netloc: after "//", up to the first of "/", "?", "#".
UrlNetloc(url) ==
    LET rest == UrlRest(url)
    IN  IF StartsWith(rest, <<"/", "/">>)
        THEN LET after == Drop(rest, 2)
                 stops == {i \in 1..Len(after) : after[i] \in {"/", "?", "#"}}
                 end   == IF stops = {} THEN Len(after)
                          ELSE (CHOOSE i \in stops : \A j \in stops : i <= j) - 1
             IN  SubSeq(after, 1, end)
        ELSE << >>

\* urlparse raises ValueError("Invalid IPv6 URL") on an unbalanced bracket.
UrlParseRaises(url) ==
    LET n == UrlNetloc(url)
    IN  ("[" \in Range(n)) # ("]" \in Range(n))

validate_url(url) ==
    IF UrlParseRaises(url) THEN FALSE
    ELSE UrlScheme(url) # << >> /\ UrlNetloc(url) # << >>

\* Session.get_adapter: the mounted prefixes "http://" and "https://".
HasAdapter(url) ==
    \/ StartsWith(Lower(url), <<"h", "t", "t", "p", ":", "/", "/">>)
    \/ StartsWith(Lower(url), <<"h", "t", "t", "p", "s", ":", "/", "/">>)

(* ------------------------------ JSON --------------------------------- *)

JVal(t, n, s, items, members) ==
    [type |-> t, n |-> n, s |-> s, items |-> items, members |-> members]

JNull == JVal("null", 0, << >>, << >>, << >>)
JBool(b) == JVal("bool", IF b THEN 1 ELSE 0, << >>, << >>, << >>)
JNum(n) == JVal("number", n, << >>, << >>, << >>)
JStr(s) == JVal("string", 0, s, << >>, << >>)
JArray(items) == JVal("array", 0, << >>, items, << >>)
\* a dict: <<key, value>> pairs in insertion order
JObject(members) == JVal("object", 0, << >>, << >>, members)

\* d[k] = v on the pairs of a dict
DictSet(members, k, v) ==
    IF \E i \in 1..Len(members) : members[i][1] = k
    THEN [i \in 1..Len(members) |-> IF members[i][1] = k THEN <<k, v>> ELSE members[i]]
    ELSE Append(members, <<k, v>>)

IsWs(c) == c \in {" ", "\n", "\t", "\r"}

RECURSIVE SkipWs(_, _)
SkipWs(s, i) == IF i <= Len(s) /\ IsWs(s[i]) THEN SkipWs(s, i + 1) ELSE i

IsDigit(c) == c \in Range(DigitChars)

DigitVal(c) == IndexIn(DigitChars, c) - 1

\* index after the run of digits starting at i
RECURSIVE DigitsEnd(_, _)
DigitsEnd(s, i) == IF i <= Len(s) /\ IsDigit(s[i]) THEN DigitsEnd(s, i + 1) ELSE i

RECURSIVE NatOf(_)
NatOf(ds) == IF ds = << >> THEN 0 ELSE 10 * NatOf(SubSeq(ds, 1, Len(ds) - 1)) + DigitVal(ds[Len(ds)])

ParseOk(v, i) == [ok |-> TRUE, val |-> v, pos |-> i]
ParseFail(i) == [ok |-> FALSE, val |-> JNull, pos |-> i]

\* A string body starting after the opening quote at i: index of the closing
\* quote, 0 when unterminated.  Escape sequences and control characters are
\* not among the modelled bodies and are rejected.
StringEnd(s, i) ==
    IF \E j \in i..Len(s) : s[j] = "\""
    THEN LET e == CHOOSE j \in i..Len(s) : s[j] = "\"" /\ \A k \in i..(j - 1) : s[k] # "\""
         IN  IF \E k \in i..(e - 1) : s[k] \in {"\\", "\n", "\t", "\r"} THEN 0 ELSE e
    ELSE 0

\* Integers only: fractions and exponents are not among the modelled bodies.
ParseNumber(s, i) ==
    LET neg   == s[i] = "-"
        first == IF neg THEN i + 1 ELSE i
        end   == IF first <= Len(s) /\ s[first] = "0" THEN first + 1 ELSE DigitsEnd(s, first)
        mag   == NatOf(SubSeq(s, first, end - 1))
    IN  IF end = first THEN ParseFail(i)
        ELSE ParseOk(JNum(IF neg THEN 0 - mag ELSE mag), end)

RECURSIVE ParseValue(_, _), ParseElems(_, _, _), ParseMembers(_, _, _)

\* json scanner: the value starting at index i of s.
ParseValue(s, i) ==
    IF i > Len(s) THEN ParseFail(i)
    ELSE IF s[i] = "\"" THEN
        LET e == StringEnd(s, i + 1)
        IN  IF e = 0 THEN ParseFail(i) ELSE ParseOk(JStr(SubSeq(s, i + 1, e - 1)), e + 1)
    ELSE IF s[i] = "{" THEN
        LET j == SkipWs(s, i + 1)
        IN  IF j <= Len(s) /\ s[j] = "}" THEN ParseOk(JObject(<< >>), j + 1)
            ELSE ParseMembers(s, j, << >>)
    ELSE IF s[i] = "[" THEN
        LET j == SkipWs(s, i + 1)
        IN  IF j <= Len(s) /\ s[j] = "]" THEN ParseOk(JArray(<< >>), j + 1)
            ELSE ParseElems(s, j, << >>)
    ELSE IF Slice(s, i, i + 3) = <<"n", "u", "l", "l">> THEN ParseOk(JNull, i + 4)
    ELSE IF Slice(s, i, i + 3) = <<"t", "r", "u", "e">> THEN ParseOk(JBool(TRUE), i + 4)
    ELSE IF Slice(s, i, i + 4) = <<"f", "a", "l", "s", "e">> THEN ParseOk(JBool(FALSE), i + 5)
    ELSE IF s[i] = "-" \/ IsDigit(s[i]) THEN ParseNumber(s, i)
    ELSE ParseFail(i)

\* the elements of an array, i at the start of the next element
ParseElems(s, i, acc) ==
    LET r == ParseValue(s, i)
        j == SkipWs(s, r.pos)
    IN  IF ~r.ok THEN r
        ELSE IF j > Len(s) THEN ParseFail(j)
        ELSE IF s[j] = "," THEN ParseElems(s, SkipWs(s, j + 1), Append(acc, r.val))
        ELSE IF s[j] = "]" THEN ParseOk(JArray(Append(acc, r.val)), j + 1)
        ELSE ParseFail(j)

\* the members of an object, i at the start of the next key
ParseMembers(s, i, acc) ==
    IF i > Len(s) \/ s[i] # "\"" THEN ParseFail(i)
    ELSE LET e == StringEnd(s, i + 1)
             c == SkipWs(s, e + 1)
             r == ParseValue(s, SkipWs(s, c + 1))
             j == SkipWs(s, r.pos)
             m == DictSet(acc, SubSeq(s, i + 1, e - 1), r.val)
         IN  IF e = 0 THEN ParseFail(i)
             ELSE IF c > Len(s) \/ s[c] # ":" THEN ParseFail(c)
             ELSE IF ~r.ok THEN r
             ELSE IF j > Len(s) THEN ParseFail(j)
             ELSE IF s[j] = "," THEN ParseMembers(s, SkipWs(s, j + 1), m)
             ELSE IF s[j] = "}" THEN ParseOk(JObject(m), j + 1)
             ELSE ParseFail(j)

\* response.json(): the whole text is one value, else ValueError.
ParseJson(text) ==
    LET r == ParseValue(text, SkipWs(text, 1))
    IN  IF r.ok /\ SkipWs(text, r.pos) # Len(text) + 1 THEN ParseFail(SkipWs(text, r.pos)) ELSE r

\* str(e) of the JSONDecodeError: the parser's message and the position.
JsonErrorText(text) ==
    LET r == ParseJson(text)
        p == ParseValue(text, SkipWs(text, 1))
    IN  (IF p.ok THEN <<"E", "x", "t", "r", "a", " ", "d", "a", "t", "a">>
         ELSE <<"E", "x", "p", "e", "c", "t", "i", "n", "g", " ", "v", "a", "l", "u", "e">>)
        \o <<":", " ", "c", "h", "a", "r", " ">> \o Digits(r.pos - 1)

Indent(level) == [i \in 1..(IndentWidth * level) |-> " "]

Quote(s) == <<"\"">> \o s \o <<"\"">>

RECURSIVE Dumps(_, _), DumpItems(_, _, _), DumpMembers(_, _, _)

\* json.dumps(v, indent=2, ensure_ascii=False) at nesting depth level
Dumps(v, level) ==
    CASE v.type = "object" ->
            IF v.members = << >> THEN <<"{", "}">>
            ELSE <<"{", "\n">> \o DumpMembers(v.members, 1, level + 1)
                 \o <<"\n">> \o Indent(level) \o <<"}">>
      [] v.type = "array" ->
            IF v.items = << >> THEN <<"[", "]">>
            ELSE <<"[", "\n">> \o DumpItems(v.items, 1, level + 1)
                 \o <<"\n">> \o Indent(level) \o <<"]">>
      [] v.type = "string" -> Quote(v.s)
      [] v.type = "number" -> Digits(v.n)
      [] v.type = "bool" -> IF v.n = 1 THEN <<"t", "r", "u", "e">> ELSE <<"f", "a", "l", "s", "e">>
      [] OTHER -> <<"n", "u", "l", "l">>

DumpItems(items, k, level) ==
    Indent(level) \o Dumps(items[k], level)
    \o (IF k < Len(items) THEN <<",", "\n">> \o DumpItems(items, k + 1, level) ELSE << >>)

DumpMembers(members, k, level) ==
    Indent(level) \o Quote(members[k][1]) \o <<":", " ">> \o Dumps(members[k][2], level)
    \o (IF k < Len(members) THEN <<",", "\n">> \o DumpMembers(members, k + 1, level) ELSE << >>)

\* Variant of Normalize in which the list branch is missing.
NormalizeWithoutListCase(data) ==
    IF data.type = "object" THEN data
    ELSE JObject(<< <<K_status, JStr(V_unknown)>>, <<K_raw, data>> >>)

\* call_api's response normalisation
Normalize(data) ==
    IF data.type = "object" THEN data
    ELSE IF data.type = "array"
         THEN JObject(<< <<K_status, JStr(V_ok)>>, <<K_data, data>> >>)
    ELSE JObject(<< <<K_status, JStr(V_unknown)>>, <<K_raw, data>> >>)

(* ----------------------------- inputs -------------------------------- *)

U_arg == <<"h", "t", "t", "p", ":", "/", "/", "a", ".", "i", "o">>
U_env == <<"h", "t", "t", "p", "s", ":", "/", "/", "b", ".", "i", "o", "/">>
U_noscheme == <<"a", ".", "i", "o">>
U_ftp == <<"f", "t", "p", ":", "/", "/", "a", ".", "i", "o">>
Tok_arg == <<"t", "a">>
Tok_env == <<"t", "e">>
Tok_env2 == <<"t", "f">>
Target == <<"x", ".", "i", "o">>
In_upper == <<"D", "N", "S", "_", "E", "N", "U", "M">>
In_unknown == <<"n", "m", "a", "p">>
B_object == <<"{", "\"", "s", "t", "a", "t", "u", "s", "\"", ":", " ", "\"", "s", "u", "c", "c", "e", "s", "s", "\"", "}">>
B_array == <<"[", "\"", "a", "\"", ",", "1", "]">>
B_string == <<"\"", "h", "i", "\"">>
B_number == <<"-", "7">>
B_true == <<"t", "r", "u", "e">>
B_null == <<"n", "u", "l", "l">>
B_text == <<"N", "o", "t", " ", "F", "o", "u", "n", "d">>
B_empty == << >>
B_trailing == <<"[", "1", "]", "x">>
Set_ok == <<"A", "=", "b", "=", "c">>
Set_bad == <<"A">>

\* The server answers the first `count` HTTP attempts of the invocation with
\* `first` and every later one with `rest`; count is at most MaxLeading.
MaxLeading == 4

StatusOutcome(code) == [kind |-> "status", status |-> code]
FailOutcome(k) == [kind |-> k, status |-> 0]

\* 302 and 307 stand for redirects that carry a Location header.
Statuses == {200, 302, 307, 404, 429, 500}

Outcomes ==
    {StatusOutcome(c) : c \in Statuses}
    \cup {FailOutcome(k) : k \in {"connect_timeout", "refused", "read_timeout"}}

Scripts ==
    {[first |-> o, count |-> 0, rest |-> o] : o \in Outcomes}
    \cup {[first |-> f, count |-> k, rest |-> r] : f \in Outcomes, k \in 1..MaxLeading, r \in Outcomes}

NoServer == [first |-> FailOutcome("none"), count |-> 0, rest |-> FailOutcome("none")]

\* the response bodies the server may send with a status
BodiesFor(code) ==
    IF code = 200
    THEN {B_object, B_array, B_string, B_number, B_true, B_null, B_text, B_empty, B_trailing}
    ELSE IF code \in {302, 307} THEN {B_empty}
    ELSE {B_text}

ToolInputs == {T_dns_enum, In_upper, In_unknown}
ApiArgs == {None, Some(U_arg), Some(U_noscheme), Some(U_ftp)}
ApiEnvs == {None, Some(U_env)}
TokenArgs == {None, Some(Tok_arg)}
TokenEnvs == {None, Some(Tok_env), Some(<< >>)}
SetArgs == {None, Some(Set_ok), Some(Set_bad)}

\* a --timeout value other than the default
TimeoutArg == 5

Args(cmd, tool, api, token, set) ==
    [command |-> cmd, tool |-> tool, target |-> Target, api |-> api, token |-> token,
     timeout |-> DefaultTimeout, set |-> set]

\* the argparse.Namespace of an invocation
Invocations ==
    {Args("scan", t, a, k, None) : t \in ToolInputs, a \in ApiArgs, k \in TokenArgs}
    \cup {Args(c, << >>, a, k, None) : c \in {"score", "audit"}, a \in ApiArgs, k \in TokenArgs}
    \cup {Args("score", << >>, Some(<< >>), Some(<< >>), None)}
    \cup {[Args("scan", T_dns_enum, Some(U_arg), Some(Tok_arg), None) EXCEPT !.timeout = TimeoutArg]}
    \cup {[Args(c, << >>, Some(U_arg), Some(Tok_arg), None) EXCEPT !.timeout = TimeoutArg] :
             c \in {"score", "audit"}}
    \cup {Args("config", << >>, None, None, s) : s \in SetArgs}
    \cup {Args("none", << >>, None, None, None)}

Environments == {[SCORTON_TOKEN |-> k, SCORTON_API_URL |-> a] : k \in TokenEnvs, a \in ApiEnvs}

\* the config command is also run with a second secret in the environment
ConfigEnvironments ==
    Environments \cup {[SCORTON_TOKEN |-> Some(Tok_env2), SCORTON_API_URL |-> a] : a \in ApiEnvs}

(* ------------------------------ state -------------------------------- *)

VARIABLES
    entry,      \* "main": main(argv); "direct": the command function is called with args
    args,       \* the parsed arguments
    env,        \* os.environ
    server,     \* the behaviour of the server the client talks to
    pc,         \* position of the invocation
    client,     \* the ScortonClient, once constructed
    request,    \* the HTTP request being sent
    redirects,  \* len(resp.history): redirects followed by the session
    total,      \* Retry.total of the request being sent
    nAttempts,  \* HTTP attempts made so far in the invocation
    response,   \* the last response received
    data,       \* response.json()
    result,     \* the envelope call_api returned
    exc,        \* the exception being handled or propagated
    stdout,     \* what print() wrote
    stderr,     \* what argparse wrote
    log,        \* the records the logger emitted
    exitCode    \* the process exit status, -1 while running

vars == <<entry, args, env, server, pc, client, request, redirects, total, nAttempts,
          response, data, result, exc, stdout, stderr, log, exitCode>>

NoMsg == Msg("", << >>)
NoExc == [type |-> "none", msg |-> NoMsg]
NoClient == [api_base |-> << >>, token |-> << >>, timeout |-> 0, max_retries |-> 0]
NoRequest == [method |-> "", url |-> << >>, auth |-> << >>, json |-> JNull, timeout |-> 0]
NoResponse == [status |-> 0, text |-> << >>]

ApiCommands == {"scan", "score", "audit"}

Init ==
    /\ entry \in {"main", "direct"}
    /\ args \in Invocations
    /\ entry = "direct" => args.command # "none"
    /\ env \in IF args.command = "config" THEN ConfigEnvironments ELSE Environments
    /\ server = NoServer
    /\ pc = IF entry = "main" THEN "main" ELSE "call"
    /\ client = NoClient
    /\ request = NoRequest
    /\ redirects = 0
    /\ total = 0
    /\ nAttempts = 0
    /\ response = NoResponse
    /\ data = JNull
    /\ result = JNull
    /\ exc = NoExc
    /\ stdout = << >>
    /\ stderr = << >>
    /\ log = << >>
    /\ exitCode = -1

\* a logger call: the level, the literal text put before str(e), the message
LogRecord(level, prefix, msg) == [level |-> level, prefix |-> prefix, msg |-> msg]

(* --------------------------- argument parsing ------------------------ *)

\* scan's TOOL argument: choices=sorted(ENDPOINTS.keys())
ToolChoices == Sorted(EndpointKeys)

InChoices(tool) == \E i \in 1..Len(ToolChoices) : ToolChoices[i] = tool

\* argparse's usage error for a value outside the choices
InvalidChoiceMsg(tool) ==
    Msg("argument TOOL: invalid choice: {} (choose from {})", <<tool, Join(ToolChoices, Sep)>>)

\* parser.parse_args(argv) rejects the tool: usage error on stderr, SystemExit(2),
\* which main's "except Exception" does not catch.
ParseArgsError ==
    /\ pc = "main"
    /\ args.command = "scan"
    /\ ~InChoices(args.tool)
    /\ stderr' = Append(stderr, InvalidChoiceMsg(args.tool))
    /\ pc' = "exit"
    /\ exitCode' = 2
    /\ UNCHANGED <<entry, args, env, server, client, request, redirects, total, nAttempts,
                   response, data, result, exc, stdout, log>>

\* parse_args succeeds and main calls args.func(args)
ParseArgsOk ==
    /\ pc = "main"
    /\ args.command # "none"
    /\ args.command = "scan" => InChoices(args.tool)
    /\ pc' = "call"
    /\ UNCHANGED <<entry, args, env, server, client, request, redirects, total, nAttempts,
                   response, data, result, exc, stdout, stderr, log, exitCode>>

\* no command: parser.print_help() and return
PrintHelp ==
    /\ pc = "main"
    /\ args.command = "none"
    /\ stdout' = Append(stdout, Msg("usage: scorton ...", << >>))
    /\ pc' = "exit"
    /\ exitCode' = 0
    /\ UNCHANGED <<entry, args, env, server, client, request, redirects, total, nAttempts,
                   response, data, result, exc, stderr, log>>

(* ------------------------------ commands ----------------------------- *)

\* Variant of UnknownToolMsg that lists the tools in descending order.
UnknownToolMsgDescending(tool) ==
    Msg("Unknown tool '{}'. Available tools: {}",
        <<tool, Join([i \in 1..Len(EndpointKeys) |->
                        Sorted(EndpointKeys)[Len(EndpointKeys) + 1 - i]], Sep)>>)

UnknownToolMsg(tool) ==
    Msg("Unknown tool '{}'. Available tools: {}", <<tool, Join(Sorted(EndpointKeys), Sep)>>)

\* run_scan's own check, outside its try block: the ScortonError leaves run_scan.
RunScanUnknownTool ==
    /\ pc = "call"
    /\ args.command = "scan"
    /\ ~InEndpoints(args.tool)
    /\ exc' = [type |-> "ScortonError", msg |-> UnknownToolMsg(args.tool)]
    /\ pc' = "unwind"
    /\ UNCHANGED <<entry, args, env, server, client, request, redirects, total, nAttempts,
                   response, data, result, stdout, stderr, log, exitCode>>

ResolveTokenEnvFirst(a, e) == Or(e.SCORTON_TOKEN, a.token)

\* args.token or os.environ.get("SCORTON_TOKEN")
ResolveToken(a, e) == Or(a.token, e.SCORTON_TOKEN)

\* args.api or os.environ.get("SCORTON_API_URL", DEFAULT_CONFIG["api_url"])
ResolveApi(a, e) ==
    Or(a.api, IF e.SCORTON_API_URL = None THEN Some(DefaultApiUrl) ELSE e.SCORTON_API_URL)

TokenRequiredMsg ==
    Msg("Authentication token is required. Provide --token or set SCORTON_TOKEN environment variable.", << >>)

\* the text of an optional string in an f-string
Shown(o) == IF o = None THEN <<"N", "o", "n", "e">> ELSE o[1]

\* Variant of AuthError that does not validate the base URL.
AuthErrorWithoutUrlCheck(a, e) ==
    IF ~Truthy(ResolveToken(a, e))
    THEN [type |-> "ConfigurationError", msg |-> TokenRequiredMsg]
    ELSE NoExc

\* get_auth_config: the error it raises, NoExc when it returns
AuthError(a, e) ==
    IF ~Truthy(ResolveToken(a, e))
    THEN [type |-> "ConfigurationError", msg |-> TokenRequiredMsg]
    ELSE IF ~validate_url(Shown(ResolveApi(a, e)))
    THEN [type |-> "ConfigurationError",
          msg |-> Msg("Invalid API URL: {}", <<Shown(ResolveApi(a, e))>>)]
    ELSE NoExc

\* the command's endpoint and mode
CallEndpointPerCommand(a) ==
    IF a.command = "scan" THEN EndpointOf(a.tool)
    ELSE IF a.command = "audit" THEN <<"a", "u", "d", "i", "t">> ELSE E_score

CallEndpoint(a) == IF a.command = "scan" THEN EndpointOf(a.tool) ELSE E_score

CallMode(a) == IF a.command = "audit" THEN Some(M_deep) ELSE None

NewClientWithArgsTimeout(api_base, token) ==
    [api_base |-> RStrip(api_base, "/"), token |-> token,
     timeout |-> args.timeout, max_retries |-> DefaultMaxRetries]

\* ScortonClient(api_base, token): timeout and max_retries keep their defaults
NewClient(api_base, token) ==
    [api_base |-> RStrip(api_base, "/"), token |-> token,
     timeout |-> DefaultTimeout, max_retries |-> DefaultMaxRetries]

\* call_api's payload: {"target": target} and "mode" only when mode is truthy
Payload(target, mode) ==
    IF Truthy(mode)
    THEN JObject(<< <<K_target, JStr(target)>>, <<K_mode, JStr(mode[1])>> >>)
    ELSE JObject(<< <<K_target, JStr(target)>> >>)

\* f"{self.api_base}/{endpoint}"
CallUrl(c, endpoint) == c.api_base \o <<"/">> \o endpoint

RunsCommand ==
    /\ pc = "call"
    /\ args.command \in ApiCommands
    /\ args.command = "scan" => InEndpoints(args.tool)

\* get_auth_config raises inside the command's try block
AuthFail ==
    /\ RunsCommand
    /\ AuthError(args, env) # NoExc
    /\ exc' = AuthError(args, env)
    /\ pc' = "handler"
    /\ UNCHANGED <<entry, args, env, server, client, request, redirects, total, nAttempts,
                   response, data, result, stdout, stderr, log, exitCode>>

\* get_auth_config returns, the client is built and call_api prepares its POST
AuthOk ==
    /\ RunsCommand
    /\ AuthError(args, env) = NoExc
    /\ LET c == NewClient(ResolveApi(args, env)[1], ResolveToken(args, env)[1])
           u == CallUrl(c, CallEndpoint(args))
       IN  /\ client' = c
           /\ request' = [method |-> "POST", url |-> u, auth |-> c.token,
                          json |-> Payload(args.target, CallMode(args)), timeout |-> c.timeout]
           /\ log' = Append(log, LogRecord("INFO", "",
                                  Msg("Making API call to {} for target: {}", <<u, args.target>>)))
    /\ pc' = "post"
    /\ UNCHANGED <<entry, args, env, server, redirects, total, nAttempts,
                   response, data, result, exc, stdout, stderr, exitCode>>

(* ----------------------------- transport ----------------------------- *)

X_no_adapter == <<"N", "o", " ", "c", "o", "n", "n", "e", "c", "t", "i", "o", "n", " ", "a", "d", "a", "p", "t", "e", "r", "s">>
X_max_retries == <<"M", "a", "x", " ", "r", "e", "t", "r", "i", "e", "s", " ", "e", "x", "c", "e", "e", "d", "e", "d">>
X_redirects == <<"E", "x", "c", "e", "e", "d", "e", "d", " ", "3", "0", " ", "r", "e", "d", "i", "r", "e", "c", "t", "s", ".">>

\* the requests exception classes call_api's except clauses tell apart
IsTimeout(cls) == cls \in {"ConnectTimeout", "ReadTimeout"}

IsConnectionError(cls) == cls \in {"ConnectionError", "ConnectTimeout"}

\* Variant of ApiErrorMsg with the ConnectionError clause before the Timeout
\* clause (ConnectTimeout is both).
ApiErrorMsgConnectionFirst(cls, c, req, resp, detail) ==
    IF IsConnectionError(cls)
    THEN Msg("Connection error for {}: {}", <<req.url, detail>>)
    ELSE IF IsTimeout(cls)
    THEN Msg("Request timeout after {}s for {}", <<Digits(c.timeout), req.url>>)
    ELSE IF cls = "HTTPError"
    THEN Msg("HTTP error {} for {}: {}", <<Digits(resp.status), req.url, Take(resp.text, PreviewLen)>>)
    ELSE Msg("Request failed for {}: {}", <<req.url, detail>>)

\* call_api's except chain, in its order: Timeout, ConnectionError, HTTPError,
\* RequestException.
ApiErrorMsg(cls, c, req, resp, detail) ==
    IF IsTimeout(cls)
    THEN Msg("Request timeout after {}s for {}", <<Digits(c.timeout), req.url>>)
    ELSE IF IsConnectionError(cls)
    THEN Msg("Connection error for {}: {}", <<req.url, detail>>)
    ELSE IF cls = "HTTPError"
    THEN Msg("HTTP error {} for {}: {}", <<Digits(resp.status), req.url, Take(resp.text, PreviewLen)>>)
    ELSE Msg("Request failed for {}: {}", <<req.url, detail>>)

ApiError(cls, c, req, resp, detail) ==
    [type |-> "APIError", msg |-> ApiErrorMsg(cls, c, req, resp, detail)]

\* what the server answers to the n-th HTTP attempt of the invocation
Answer(n) == IF n <= server.count THEN server.first ELSE server.rest

\* Retry._is_method_retryable
IsMethodRetryable(method) == method \in AllowedMethods

\* Variant of IsRetry that retries every error status, whatever the method.
IsRetryOnAnyError(method, status) == status >= 400

\* Retry.is_retry: a status is retried only for a retryable method
IsRetry(method, status) == IsMethodRetryable(method) /\ status \in StatusForcelist

\* Retry.is_exhausted after increment()
Exhausted(t) == t < 0

\* session.post finds no adapter mounted for the URL: InvalidSchema
PostNoAdapter ==
    /\ pc = "post"
    /\ ~HasAdapter(request.url)
    /\ exc' = ApiError("InvalidSchema", client, request, response, X_no_adapter)
    /\ pc' = "handler"
    /\ UNCHANGED <<entry, args, env, server, client, request, redirects, total, nAttempts,
                   response, data, result, stdout, stderr, log, exitCode>>

\* session.post hands the request to the adapter with Retry(total=max_retries)
PostSend ==
    /\ pc = "post"
    /\ HasAdapter(request.url)
    /\ server' \in Scripts
    /\ total' = client.max_retries
    /\ pc' = "attempt"
    /\ UNCHANGED <<entry, args, env, client, request, redirects, nAttempts,
                   response, data, result, exc, stdout, stderr, log, exitCode>>

\* an attempt fails before the request reaches the server (connect timeout,
\* connection refused): retried for any method until Retry.total is used up
AttemptConnectFail ==
    /\ pc = "attempt"
    /\ Answer(nAttempts + 1).kind \in {"connect_timeout", "refused"}
    /\ nAttempts' = nAttempts + 1
    /\ total' = total - 1
    /\ IF Exhausted(total - 1)
       THEN /\ exc' = ApiError(IF Answer(nAttempts + 1).kind = "connect_timeout"
                               THEN "ConnectTimeout" ELSE "ConnectionError",
                               client, request, response, X_max_retries)
            /\ pc' = "handler"
       ELSE UNCHANGED <<exc, pc>>
    /\ UNCHANGED <<entry, args, env, server, client, request, redirects,
                   response, data, result, stdout, stderr, log, exitCode>>

\* the request was sent and the read times out: a read error is retried only
\* for a retryable method; otherwise ReadTimeout is raised at once
AttemptReadTimeout ==
    /\ pc = "attempt"
    /\ Answer(nAttempts + 1).kind = "read_timeout"
    /\ nAttempts' = nAttempts + 1
    /\ IF ~IsMethodRetryable(request.method)
       THEN /\ exc' = ApiError("ReadTimeout", client, request, response, X_max_retries)
            /\ pc' = "handler"
            /\ UNCHANGED total
       ELSE /\ total' = total - 1
            /\ IF Exhausted(total - 1)
               THEN /\ exc' = ApiError("ConnectionError", client, request, response, X_max_retries)
                    /\ pc' = "handler"
               ELSE UNCHANGED <<exc, pc>>
    /\ UNCHANGED <<entry, args, env, server, client, request, redirects,
                   response, data, result, stdout, stderr, log, exitCode>>

\* the server answers with a status: retried when Retry.is_retry says so
\* (RetryError once the budget is used up), else handed back to the session
AttemptStatus ==
    /\ pc = "attempt"
    /\ Answer(nAttempts + 1).kind = "status"
    /\ nAttempts' = nAttempts + 1
    /\ \E text \in BodiesFor(Answer(nAttempts + 1).status) :
         response' = [status |-> Answer(nAttempts + 1).status, text |-> text]
    /\ IF IsRetry(request.method, Answer(nAttempts + 1).status)
       THEN /\ total' = total - 1
            /\ IF Exhausted(total - 1)
               THEN /\ exc' = ApiError("RetryError", client, request, response', X_max_retries)
                    /\ pc' = "handler"
               ELSE UNCHANGED <<exc, pc>>
       ELSE /\ pc' = "response"
            /\ UNCHANGED <<total, exc>>
    /\ UNCHANGED <<entry, args, env, server, client, request, redirects,
                   data, result, stdout, stderr, log, exitCode>>

IsRedirect(status) == status \in {301, 302, 303, 307, 308}

\* Session.rebuild_method: 301, 302 and 303 turn a POST into a GET
RedirectMethod(method, status) ==
    IF status \in {301, 302, 303} /\ method = "POST" THEN "GET" ELSE method

\* the session follows the redirect with a new request and a fresh Retry
FollowRedirect ==
    /\ pc = "response"
    /\ IsRedirect(response.status)
    /\ redirects < MaxRedirects
    /\ redirects' = redirects + 1
    /\ request' = [request EXCEPT
                     !.method = RedirectMethod(request.method, response.status),
                     !.json = IF RedirectMethod(request.method, response.status) = request.method
                              THEN request.json ELSE JNull]
    /\ total' = client.max_retries
    /\ pc' = "attempt"
    /\ UNCHANGED <<entry, args, env, server, client, nAttempts,
                   response, data, result, exc, stdout, stderr, log, exitCode>>

\* len(resp.history) >= max_redirects: TooManyRedirects
TooManyRedirects ==
    /\ pc = "response"
    /\ IsRedirect(response.status)
    /\ redirects >= MaxRedirects
    /\ exc' = ApiError("TooManyRedirects", client, request, response, X_redirects)
    /\ pc' = "handler"
    /\ UNCHANGED <<entry, args, env, server, client, request, redirects, total, nAttempts,
                   response, data, result, stdout, stderr, log, exitCode>>

\* response.raise_for_status() raises HTTPError for 4xx and 5xx
RaiseForStatus ==
    /\ pc = "response"
    /\ ~IsRedirect(response.status)
    /\ response.status >= 400 /\ response.status < 600
    /\ exc' = ApiError("HTTPError", client, request, response, << >>)
    /\ pc' = "handler"
    /\ UNCHANGED <<entry, args, env, server, client, request, redirects, total, nAttempts,
                   response, data, result, stdout, stderr, log, exitCode>>

\* response.json() raises ValueError
JsonFail ==
    /\ pc = "response"
    /\ ~IsRedirect(response.status)
    /\ response.status < 400
    /\ ~ParseJson(response.text).ok
    /\ exc' = [type |-> "APIError",
               msg |-> Msg("Invalid JSON response from {}: {}",
                           <<request.url, JsonErrorText(response.text)>>)]
    /\ pc' = "handler"
    /\ UNCHANGED <<entry, args, env, server, client, request, redirects, total, nAttempts,
                   response, data, result, stdout, stderr, log, exitCode>>

\* response.json() parses; call_api returns the normalised envelope
JsonOk ==
    /\ pc = "response"
    /\ ~IsRedirect(response.status)
    /\ response.status < 400
    /\ ParseJson(response.text).ok
    /\ data' = ParseJson(response.text).val
    /\ result' = Normalize(ParseJson(response.text).val)
    /\ pc' = "print"
    /\ UNCHANGED <<entry, args, env, server, client, request, redirects, total, nAttempts,
                   response, exc, stdout, stderr, log, exitCode>>

(* ------------------------- output and errors ------------------------- *)

\* print(json.dumps(result, indent=2, ensure_ascii=False))
PrintResult ==
    /\ pc = "print"
    /\ stdout' = Append(stdout, Msg("{}", <<Dumps(result, 0)>>))
    /\ pc' = "return"
    /\ UNCHANGED <<entry, args, env, server, client, request, redirects, total, nAttempts,
                   response, data, result, exc, stderr, log, exitCode>>

\* the command function returns; main returns and the process exits with 0
Return ==
    /\ pc = "return"
    /\ IF entry = "main"
       THEN pc' = "exit" /\ exitCode' = 0
       ELSE pc' = "returned" /\ UNCHANGED exitCode
    /\ UNCHANGED <<entry, args, env, server, client, request, redirects, total, nAttempts,
                   response, data, result, exc, stdout, stderr, log>>

\* Variant of HandleError that exits without logging the error.
HandleErrorSilently ==
    /\ pc = "handler"
    /\ pc' = "exit"
    /\ exitCode' = 1
    /\ UNCHANGED <<entry, args, env, server, client, request, redirects, total, nAttempts,
                   response, data, result, exc, stdout, stderr, log>>

\* except (ConfigurationError, APIError, ScortonError): logger.error(str(e));
\* sys.exit(1).  SystemExit passes main's "except Exception".
HandleError ==
    /\ pc = "handler"
    /\ log' = Append(log, LogRecord("ERROR", "", exc.msg))
    /\ pc' = "exit"
    /\ exitCode' = 1
    /\ UNCHANGED <<entry, args, env, server, client, request, redirects, total, nAttempts,
                   response, data, result, exc, stdout, stderr>>

\* an exception leaves the command function and reaches main's
\* "except Exception": logger.error(f"Unexpected error: {e}"); sys.exit(1)
MainExcept ==
    /\ pc = "unwind"
    /\ entry = "main"
    /\ log' = Append(log, LogRecord("ERROR", "Unexpected error: ", exc.msg))
    /\ pc' = "exit"
    /\ exitCode' = 1
    /\ UNCHANGED <<entry, args, env, server, client, request, redirects, total, nAttempts,
                   response, data, result, exc, stdout, stderr>>

\* called directly, the exception reaches the caller
Propagate ==
    /\ pc = "unwind"
    /\ entry = "direct"
    /\ pc' = "raised"
    /\ UNCHANGED <<entry, args, env, server, client, request, redirects, total, nAttempts,
                   response, data, result, exc, stdout, stderr, log, exitCode>>

Running == {"main", "call", "post", "attempt", "response", "print", "return", "handler", "unwind"}

Terminal == {"exit", "returned", "raised"}

\* KeyboardInterrupt: no "except Exception" catches it; main logs the
\* cancellation at INFO and exits with 130
Interrupt ==
    /\ pc \in Running
    /\ IF entry = "main"
       THEN /\ log' = Append(log, LogRecord("INFO", "", Msg("Operation cancelled by user", << >>)))
            /\ pc' = "exit"
            /\ exitCode' = 130
            /\ UNCHANGED exc
       ELSE /\ exc' = [type |-> "KeyboardInterrupt", msg |-> NoMsg]
            /\ pc' = "raised"
            /\ UNCHANGED <<log, exitCode>>
    /\ UNCHANGED <<entry, args, env, server, client, request, redirects, total, nAttempts,
                   response, data, result, stdout, stderr>>

(* ------------------------------ config ------------------------------- *)

\* run_config's config dict
ConfigShownUnmasked(e) ==
    << IF e.SCORTON_API_URL = None THEN DefaultApiUrl ELSE e.SCORTON_API_URL[1],
       IF Truthy(e.SCORTON_TOKEN) THEN e.SCORTON_TOKEN[1] ELSE NotSet >>

ConfigShown(e) ==
    << IF e.SCORTON_API_URL = None THEN DefaultApiUrl ELSE e.SCORTON_API_URL[1],
       IF Truthy(e.SCORTON_TOKEN) THEN Masked ELSE NotSet >>

\* Variant of SplitFirst that splits at the last "=" (rsplit).
SplitAtLast(s) ==
    IF Find(s, "=") < 0 THEN <<s>>
    ELSE LET i == CHOOSE k \in 1..Len(s) : s[k] = "=" /\ \A j \in (k + 1)..Len(s) : s[j] # "="
         IN  <<SubSeq(s, 1, i - 1), SubSeq(s, i + 1, Len(s))>>

\* args.set.split("=", 1)
SplitFirst(s) ==
    IF Find(s, "=") < 0 THEN <<s>> ELSE <<Take(s, Find(s, "=")), Drop(s, Find(s, "=") + 1)>>

\* --set KEY=VALUE: the two lines printed
RunConfigSet ==
    /\ pc = "call"
    /\ args.command = "config"
    /\ Truthy(args.set)
    /\ Len(SplitFirst(args.set[1])) = 2
    /\ stdout' = stdout \o << Msg("To set {}={}, run:", SplitFirst(args.set[1])),
                              Msg("export {}={}", SplitFirst(args.set[1])) >>
    /\ pc' = "return"
    /\ UNCHANGED <<entry, args, env, server, client, request, redirects, total, nAttempts,
                   response, data, result, exc, stderr, log, exitCode>>

\* --set without "=": the unpacking raises ValueError, turned into ScortonError,
\* which leaves run_config
RunConfigInvalid ==
    /\ pc = "call"
    /\ args.command = "config"
    /\ Truthy(args.set)
    /\ Len(SplitFirst(args.set[1])) # 2
    /\ exc' = [type |-> "ScortonError",
               msg |-> Msg("Invalid format for --set. Use KEY=VALUE format.", << >>)]
    /\ pc' = "unwind"
    /\ UNCHANGED <<entry, args, env, server, client, request, redirects, total, nAttempts,
                   response, data, result, stdout, stderr, log, exitCode>>

\* no --set: the configuration is printed, the token masked
RunConfigShow ==
    /\ pc = "call"
    /\ args.command = "config"
    /\ ~Truthy(args.set)
    /\ stdout' = stdout \o << Msg("Current Scorton CLI configuration:", << >>),
                              Msg("  SCORTON_API_URL: {}", <<ConfigShown(env)[1]>>),
                              Msg("  SCORTON_TOKEN: {}", <<ConfigShown(env)[2]>>) >>
    /\ pc' = "return"
    /\ UNCHANGED <<entry, args, env, server, client, request, redirects, total, nAttempts,
                   response, data, result, exc, stderr, log, exitCode>>

Next ==
    \/ ParseArgsError
    \/ ParseArgsOk
    \/ PrintHelp
    \/ RunScanUnknownTool
    \/ AuthFail
    \/ AuthOk
    \/ PostNoAdapter
    \/ PostSend
    \/ AttemptConnectFail
    \/ AttemptReadTimeout
    \/ AttemptStatus
    \/ FollowRedirect
    \/ TooManyRedirects
    \/ RaiseForStatus
    \/ JsonFail
    \/ JsonOk
    \/ PrintResult
    \/ Return
    \/ HandleError
    \/ MainExcept
    \/ Propagate
    \/ Interrupt
    \/ RunConfigSet
    \/ RunConfigInvalid
    \/ RunConfigShow

Spec == Init /\ [][Next]_vars

(* ------------------------------ claims ------------------------------- *)

\* the invocation was ended by a user interrupt
Interrupted ==
    \/ pc = "exit" /\ exitCode = 130
    \/ pc = "raised" /\ exc.type = "KeyboardInterrupt"

\* the invocation ended otherwise
Finished == pc \in Terminal /\ ~Interrupted

\* an ERROR record was logged, argparse wrote a usage error, or an exception
\* reached the caller
ErrorReported ==
    \/ \E i \in 1..Len(log) : log[i].level = "ERROR"
    \/ stderr # << >>
    \/ pc = "raised" /\ exc.type # "KeyboardInterrupt"

\* scan/score/audit with a tool the registry holds
SupportedApiCommand ==
    /\ args.command \in ApiCommands
    /\ args.command = "scan" => args.tool \in Range(EndpointKeys)

Absent(o) == o = None \/ o = Some(<< >>)

NoTokenSupplied == Absent(args.token) /\ Absent(env.SCORTON_TOKEN)

\* the base URL by precedence: --api, then SCORTON_API_URL, then the default
BaseUrlInEffect ==
    IF ~Absent(args.api) THEN args.api[1]
    ELSE IF env.SCORTON_API_URL # None THEN env.SCORTON_API_URL[1]
    ELSE DefaultApiUrl

ConfigurationErrorLogged ==
    /\ exc.type = "ConfigurationError"
    /\ log # << >>
    /\ log[Len(log)] = LogRecord("ERROR", "", exc.msg)
    /\ exc.msg.fmt \in {TokenRequiredMsg.fmt, "Invalid API URL: {}"}

RECURSIVE SplitOn(_, _)
SplitOn(s, sep) ==
    LET hits == {i \in 1..(Len(s) - Len(sep) + 1) : SubSeq(s, i, i + Len(sep) - 1) = sep}
        i    == CHOOSE k \in hits : \A j \in hits : k <= j
    IN  IF hits = {} THEN <<s>>
        ELSE <<SubSeq(s, 1, i - 1)>> \o SplitOn(Drop(s, i + Len(sep) - 1), sep)

\* the message names the tool and lists exactly the registry's keys, ascending
NamesToolAndListsSorted(m, tool) ==
    /\ Len(m.args) = 2
    /\ m.args[1] = tool
    /\ LET names == SplitOn(m.args[2], Sep)
       IN  /\ Len(names) = Len(ENDPOINTS)
           /\ Range(names) = {ENDPOINTS[i][1] : i \in 1..Len(ENDPOINTS)}
           /\ \A i \in 1..(Len(names) - 1) : StrLess(names[i], names[i + 1])

UnknownTool == args.command = "scan" /\ \A i \in 1..Len(ENDPOINTS) : ENDPOINTS[i][1] # args.tool

\* C2: scan with a tool that is not exactly a registry key: whatever credential
\* is present, authentication is never reached and no HTTP request is prepared
\* or sent; the invocation, unless interrupted, ends with an unknown-tool error
\* (run_scan's ScortonError when called directly, argparse's invalid-choice
\* error under main) whose message names the tool and lists every registry key
\* in ascending order.
C2_UnknownToolRejected ==
    UnknownTool =>
        /\ nAttempts = 0
        /\ request = NoRequest
        /\ client = NoClient
        /\ pc \notin {"handler", "post", "attempt", "response", "print", "return", "returned"}
        /\ exc.type \in {"none", "ScortonError", "KeyboardInterrupt"}
        /\ exc.type = "ScortonError" =>
              /\ exc.msg.fmt = "Unknown tool '{}'. Available tools: {}"
              /\ NamesToolAndListsSorted(exc.msg, args.tool)
        /\ Finished =>
              \/ pc = "raised" /\ exc.type = "ScortonError"
              \/ /\ pc = "exit"
                 /\ Len(stderr) = 1
                 /\ NamesToolAndListsSorted(stderr[1], args.tool)

C2_Witness ==
    /\ UnknownTool
    /\ args.tool = In_upper
    /\ ~NoTokenSupplied
    /\ pc = "raised"
    /\ exc.type = "ScortonError"
    /\ NamesToolAndListsSorted(exc.msg, args.tool)

\* call_api has returned an envelope
EnvelopeReturned ==
    /\ args.command \in ApiCommands
    /\ pc \in {"print", "return", "returned"} \/ (pc = "exit" /\ exitCode = 0)

ObjectCase == data.type = "object" /\ result = data

ArrayCase ==
    /\ data.type = "array"
    /\ result = JObject(<< <<K_status, JStr(V_ok)>>, <<K_data, data>> >>)

OtherCase ==
    /\ data.type \in {"string", "number", "bool", "null"}
    /\ result = JObject(<< <<K_status, JStr(V_unknown)>>, <<K_raw, data>> >>)

\* C3: whenever call_api returns, the parsed body is an object, an array or a
\* scalar, and exactly one of the three cases describes the envelope: the
\* object itself, {status: "ok", data: array}, {status: "unknown", raw: value}.
C3_NormalizationThreeCases ==
    EnvelopeReturned =>
        /\ data = ParseJson(response.text).val
        /\ Cardinality({c \in {"object", "array", "other"} :
                          \/ c = "object" /\ ObjectCase
                          \/ c = "array" /\ ArrayCase
                          \/ c = "other" /\ OtherCase}) = 1

C3_Witness ==
    /\ pc = "print"
    /\ response.text = B_array
    /\ data = JArray(<<JStr(<<"a">>), JNum(1)>>)
    /\ ArrayCase

ServerIs(f, k, r) == server = [first |-> f, count |-> k, rest |-> r]

\* C4 (as claimed): the server answers 500, 500, then 200 with a JSON body: the
\* call does not fail, and when it returns, three attempts were made and the
\* envelope is the normalisation of the third response's body.
C4_RetryThenSucceed ==
    ServerIs(StatusOutcome(500), 2, StatusOutcome(200)) =>
        /\ pc = "handler" => nAttempts = 3 /\ ~ParseJson(response.text).ok
        /\ pc = "print" =>
              /\ nAttempts = 3
              /\ response.status = 200
              /\ result = Normalize(ParseJson(response.text).val)

\* the first answer is a 4xx status other than 429
FirstAnswerClientError ==
    /\ server # NoServer
    /\ Answer(1).kind = "status"
    /\ Answer(1).status >= 400 /\ Answer(1).status < 500
    /\ Answer(1).status # 429

\* C5: when the server's first answer is a 4xx status other than 429, one HTTP
\* attempt is made and no more, and the call fails with the HTTP-status error
\* whose message carries that status code.
C5_ClientErrorNotRetried ==
    FirstAnswerClientError =>
        /\ nAttempts <= 1
        /\ redirects = 0
        /\ nAttempts = 1 => pc \in {"response", "handler"} \cup Terminal
        /\ (pc = "handler" \/ (pc = "exit" /\ exitCode = 1)) =>
              /\ exc.type = "APIError"
              /\ exc.msg.fmt = "HTTP error {} for {}: {}"
              /\ exc.msg.args[1] = Digits(Answer(1).status)
              /\ response.status = Answer(1).status

C5_Witness ==
    /\ FirstAnswerClientError
    /\ Answer(1).status = 404
    /\ nAttempts = 1
    /\ pc = "exit"
    /\ exitCode = 1
    /\ exc.msg.fmt = "HTTP error {} for {}: {}"
    /\ exc.msg.args[1] = <<"4", "0", "4">>

\* C6 (as claimed): the HTTP attempts of an invocation never exceed
\* 1 + max_retries.
C6_AttemptsWithinBudget == nAttempts <= 1 + DefaultMaxRetries

\* every attempt made so far timed out
AllAttemptsTimedOut ==
    /\ nAttempts >= 1
    /\ \A i \in 1..nAttempts : Answer(i).kind \in {"connect_timeout", "read_timeout"}

\* C7: when every attempt timed out and the call has failed, the error is the
\* timeout error, not the connection error, and its message carries the
\* timeout the client and the request were configured with.
C7_TimeoutSurfacedAsTimeout ==
    (AllAttemptsTimedOut /\ (pc = "handler" \/ (pc = "exit" /\ exitCode = 1))) =>
        /\ exc.type = "APIError"
        /\ exc.msg.fmt = "Request timeout after {}s for {}"
        /\ exc.msg.fmt # "Connection error for {}: {}"
        /\ exc.msg.args[1] = Digits(client.timeout)
        /\ request.timeout = client.timeout
        /\ client.timeout = DefaultTimeout

C7_Witness ==
    /\ AllAttemptsTimedOut
    /\ nAttempts = 1 + client.max_retries
    /\ \A i \in 1..nAttempts : Answer(i).kind = "connect_timeout"
    /\ pc = "exit"
    /\ exitCode = 1
    /\ exc.msg.fmt = "Request timeout after {}s for {}"
    /\ exc.msg.args[1] = <<"3", "0">>

\* the command succeeded: it returned without raising
Succeeded ==
    /\ exc = NoExc
    /\ stderr = << >>
    /\ \A i \in 1..Len(log) : log[i].level # "ERROR"

\* C8 (as claimed): main ends with exit status 0, 1 or 130: 0 exactly when the
\* command succeeded, 130 on interrupt, 1 on every error.
C8_ExitCodes ==
    (entry = "main" /\ pc = "exit") =>
        /\ exitCode \in {0, 1, 130}
        /\ exitCode = 0 => Succeeded
        /\ (UnknownTool /\ ~Interrupted) => exitCode = 1

EnvelopesPrinted == Len(stdout)

\* C9 (as claimed): in every terminal state of scan, score and audit, either
\* the envelope was printed, once, or an error was reported, and not both.
C9_PrintedXorError ==
    (args.command \in ApiCommands /\ pc \in Terminal) =>
        /\ EnvelopesPrinted <= 1
        /\ (EnvelopesPrinted = 1) # ErrorReported

\* C9 (amended): in every terminal state of scan, score and audit that was not
\* reached through a user interrupt, either the envelope was printed, once, or
\* an error was reported, and not both; an interrupted invocation has printed
\* at most one envelope.
C9_PrintedXorErrorUnlessInterrupted ==
    (args.command \in ApiCommands /\ pc \in Terminal) =>
        /\ EnvelopesPrinted <= 1
        /\ Finished => ((EnvelopesPrinted = 1) # ErrorReported)
        /\ EnvelopesPrinted = 1 => stdout[1] = Msg("{}", <<Dumps(result, 0)>>)

C9_Witness ==
    /\ args.command = "audit"
    /\ pc = "exit"
    /\ exitCode = 0
    /\ EnvelopesPrinted = 1
    /\ ~ErrorReported
    /\ nAttempts = 1 + DefaultMaxRetries

\* a response arrived whose body is not valid JSON and call_api tried to parse it
BodyNotJson ==
    /\ response.status # 0
    /\ response.status < 400
    /\ ~IsRedirect(response.status)
    /\ ~ParseJson(response.text).ok
    /\ pc \in {"handler", "exit", "raised"}
    /\ exc.type = "APIError"

\* C10 (as claimed): a received body that is not valid JSON fails the call with
\* its own error, no envelope, no further attempt, and the error message
\* contains the raw response text.
C10_RawTextShown ==
    BodyNotJson =>
        /\ exc.msg.fmt = "Invalid JSON response from {}: {}"
        /\ stdout = << >>
        /\ \E i \in 1..Len(exc.msg.args) : IsSubstring(response.text, exc.msg.args[i])

\* --set was given a non-empty string
SetGiven == args.command = "config" /\ args.set # None /\ args.set[1] # << >>

SetHasEquals == SetGiven /\ "=" \in Range(args.set[1])

\* run_config returned normally
ConfigReturned == pc \in {"return", "returned"} \/ (pc = "exit" /\ exitCode = 0)

\* the second line printed is "export K=V" where K=V is the --set string and
\* K holds no "="
ExportsExactly(text) ==
    /\ Len(stdout) = 2
    /\ stdout[2].fmt = "export {}={}"
    /\ Len(stdout[2].args) = 2
    /\ stdout[2].args[1] \o <<"=">> \o stdout[2].args[2] = text
    /\ "=" \notin Range(stdout[2].args[1])

\* C11: the config command never builds a client and never prepares or sends
\* an HTTP request.  With --set K=V it prints an export statement holding
\* exactly the --set string, split at its first "=", and reports no error; with
\* a --set string without "=" it prints nothing and fails with the ScortonError
\* "Invalid format for --set. Use KEY=VALUE format.".
C11_ConfigSetNoNetwork ==
    args.command = "config" =>
        /\ nAttempts = 0
        /\ request = NoRequest
        /\ client = NoClient
        /\ server = NoServer
        /\ pc \notin {"post", "attempt", "response", "handler", "print"}
        /\ SetHasEquals =>
              /\ exc.type \in {"none", "KeyboardInterrupt"}
              /\ \A i \in 1..Len(log) : log[i].level # "ERROR"
              /\ ConfigReturned => ExportsExactly(args.set[1])
        /\ (SetGiven /\ ~SetHasEquals) =>
              /\ stdout = << >>
              /\ ~ConfigReturned
              /\ (pc = "unwind" \/ Finished) =>
                    /\ exc.type = "ScortonError"
                    /\ exc.msg.fmt = "Invalid format for --set. Use KEY=VALUE format."
              /\ (Finished /\ entry = "main") =>
                    /\ exitCode = 1
                    /\ log = <<LogRecord("ERROR", "Unexpected error: ", exc.msg)>>

C11_Witness ==
    /\ entry = "main"
    /\ args.set = Some(Set_ok)
    /\ pc = "exit"
    /\ exitCode = 0
    /\ stdout[2] = Msg("export {}={}", << <<"A">>, <<"b", "=", "c">> >>)
    /\ nAttempts = 0

\* what config prints, as a function of the base URL in the environment and of
\* whether a token is set: the token's value is not a parameter
ConfigOutput(url, tokenSet) ==
    << Msg("Current Scorton CLI configuration:", << >>),
       Msg("  SCORTON_API_URL: {}", <<IF url = None THEN DefaultApiUrl ELSE url[1]>>),
       Msg("  SCORTON_TOKEN: {}", <<IF tokenSet THEN <<"*", "*", "*">> ELSE <<"N", "o", "t", " ", "s", "e", "t">> >>) >>

\* config without --set
ConfigShowRun == args.command = "config" /\ ~Truthy(args.set)

TokenSet == env.SCORTON_TOKEN # None /\ env.SCORTON_TOKEN[1] # << >>

\* no argument of a printed or logged message holds the text
NowhereShown(text) ==
    /\ \A i \in 1..Len(stdout) : \A j \in 1..Len(stdout[i].args) :
          ~IsSubstring(text, stdout[i].args[j])
    /\ \A i \in 1..Len(stderr) : \A j \in 1..Len(stderr[i].args) :
          ~IsSubstring(text, stderr[i].args[j])
    /\ \A i \in 1..Len(log) : \A j \in 1..Len(log[i].msg.args) :
          ~IsSubstring(text, log[i].msg.args[j])

\* C12: config without --set prints a configuration that is a function of
\* SCORTON_API_URL and of whether SCORTON_TOKEN is set (non-empty) only: two
\* environments that differ in the non-empty value of the token give the same
\* output, and the value of the token appears nowhere in what is printed or
\* logged.
C12_ConfigMasksToken ==
    ConfigShowRun =>
        /\ stdout \in {<< >>, ConfigOutput(env.SCORTON_API_URL, TokenSet)}
        /\ ConfigReturned => stdout = ConfigOutput(env.SCORTON_API_URL, TokenSet)
        /\ TokenSet => NowhereShown(env.SCORTON_TOKEN[1])

C12_Witness ==
    /\ ConfigShowRun
    /\ env.SCORTON_TOKEN = Some(Tok_env2)
    /\ pc = "exit"
    /\ exitCode = 0
    /\ stdout = ConfigOutput(env.SCORTON_API_URL, TRUE)
    /\ \E e \in ConfigEnvironments :
          /\ e.SCORTON_TOKEN = Some(Tok_env)
          /\ e.SCORTON_API_URL = env.SCORTON_API_URL

\* the same invocation with score and audit exchanged
Twin(a) == [a EXCEPT !.command = IF a.command = "score" THEN "audit" ELSE "score"]

ScoreOrAudit == args.command \in {"score", "audit"}

\* the body of the command: the target, and the mode "deep" for audit only
BodyOf(cmd) ==
    IF cmd = "audit"
    THEN JObject(<< <<K_target, JStr(args.target)>>, <<K_mode, JStr(<<"d", "e", "e", "p">>)>> >>)
    ELSE JObject(<< <<K_target, JStr(args.target)>> >>)

EnvValue(o) == IF o = None THEN << >> ELSE o[1]

\* stripped is full without its trailing "/"s
StripsTo(full, stripped) ==
    /\ StartsWith(full, stripped)
    /\ \A i \in (Len(stripped) + 1)..Len(full) : full[i] = "/"
    /\ stripped = << >> \/ stripped[Len(stripped)] # "/"

\* the client and every request carry the token and are rooted at the base URL
Uses(token, base) ==
    /\ client.token = token
    /\ StripsTo(base, client.api_base)
    /\ request # NoRequest =>
          /\ request.auth = token
          /\ StartsWith(request.url, client.api_base \o <<"/">>)

\* C14 (as claimed): the token is the --token value whenever the option was
\* given, else SCORTON_TOKEN; the base URL is the --api value whenever the
\* option was given, else SCORTON_API_URL, else http://localhost:8000.
C14_ExplicitValueWins ==
    (args.command \in ApiCommands /\ client # NoClient) =>
        Uses(IF args.token # None THEN args.token[1] ELSE EnvValue(env.SCORTON_TOKEN),
             IF args.api # None THEN args.api[1]
             ELSE IF env.SCORTON_API_URL # None THEN env.SCORTON_API_URL[1]
             ELSE <<"h", "t", "t", "p", ":", "/", "/", "l", "o", "c", "a", "l", "h", "o", "s", "t", ":", "8", "0", "0", "0">>)

\* C14 (amended): an option counts as given when its value is not empty.  The
\* token of the client and the AUTH header of every request, redirects
\* included, is the non-empty --token value, else SCORTON_TOKEN; the base URL
\* is the non-empty --api value, else SCORTON_API_URL, else
\* http://localhost:8000, without its trailing slashes.  An empty --token or
\* --api gives way to the environment.
C14_NonEmptyExplicitValueWins ==
    (args.command \in ApiCommands /\ client # NoClient) =>
        /\ Uses(IF ~Absent(args.token) THEN args.token[1] ELSE EnvValue(env.SCORTON_TOKEN),
                IF ~Absent(args.api) THEN args.api[1]
                ELSE IF env.SCORTON_API_URL # None THEN env.SCORTON_API_URL[1]
                ELSE <<"h", "t", "t", "p", ":", "/", "/", "l", "o", "c", "a", "l", "h", "o", "s", "t", ":", "8", "0", "0", "0">>)
        /\ client.token # << >>

C14_Witness ==
    /\ args.token = Some(Tok_arg)
    /\ env.SCORTON_TOKEN = Some(Tok_env)
    /\ args.api = Some(U_arg)
    /\ env.SCORTON_API_URL = Some(U_env)
    /\ redirects >= 1
    /\ request.auth = Tok_arg
    /\ StartsWith(request.url, U_arg)
    /\ pc = "exit"
    /\ exitCode = 0

====
